---- MODULE Spec2Model ----
(***************************************************************************)
(* A model of spinspg: the site-permutation matching (permutation.py),     *)
(* the spin space group assembler (group.py) and the point-group closure   *)
(* and classification engine (pointgroup.py).                              *)
(*                                                                         *)
(* Reals are modelled exactly as rationals: a vector of fractional         *)
(* coordinates is an integer 3-vector of numerators over a denominator     *)
(* that the operators carry as `den`; lengths are compared through their   *)
(* squares.  A 3x3 matrix is the tuple of its rows.  Site indices and      *)
(* permutation entries are 0-based as in the source; TLA+ sequences are    *)
(* 1-based, so entry i of a Python list is element i+1 of the sequence.    *)
(***************************************************************************)
EXTENDS Integers, Sequences, FiniteSets, TLC

\* ------------------------------------------------------------------------
\* Integer linear algebra (numpy's @, .T, det, inv as adjugate over det)
\* ------------------------------------------------------------------------

Abs(x) == IF x < 0 THEN -x ELSE x

Zero3 == <<0, 0, 0>>

Eye3 == <<<<1, 0, 0>>, <<0, 1, 0>>, <<0, 0, 1>>>>

Dot(u, v) == u[1] * v[1] + u[2] * v[2] + u[3] * v[3]

VAdd(u, v) == <<u[1] + v[1], u[2] + v[2], u[3] + v[3]>>

VSub(u, v) == <<u[1] - v[1], u[2] - v[2], u[3] - v[3]>>

VScale(k, v) == <<k * v[1], k * v[2], k * v[3]>>

NormSq(v) == Dot(v, v)

Col(M, j) == <<M[1][j], M[2][j], M[3][j]>>

Transpose(M) == <<Col(M, 1), Col(M, 2), Col(M, 3)>>

MatVec(M, v) == <<Dot(M[1], v), Dot(M[2], v), Dot(M[3], v)>>

MatMul(A, B) ==
    [i \in 1..3 |-> [j \in 1..3 |-> Dot(A[i], Col(B, j))]]

MatScale(k, M) == [i \in 1..3 |-> VScale(k, M[i])]

Det3(M) ==
      M[1][1] * (M[2][2] * M[3][3] - M[2][3] * M[3][2])
    - M[1][2] * (M[2][1] * M[3][3] - M[2][3] * M[3][1])
    + M[1][3] * (M[2][1] * M[3][2] - M[2][2] * M[3][1])

\* Adjugate: inv(M) = Adj(M) / Det3(M)
Adj(M) ==
    << << M[2][2] * M[3][3] - M[2][3] * M[3][2],
          M[1][3] * M[3][2] - M[1][2] * M[3][3],
          M[1][2] * M[2][3] - M[1][3] * M[2][2] >>,
       << M[2][3] * M[3][1] - M[2][1] * M[3][3],
          M[1][1] * M[3][3] - M[1][3] * M[3][1],
          M[1][3] * M[2][1] - M[1][1] * M[2][3] >>,
       << M[2][1] * M[3][2] - M[2][2] * M[3][1],
          M[1][2] * M[3][1] - M[1][1] * M[3][2],
          M[1][1] * M[2][2] - M[1][2] * M[2][1] >> >>

\* inv(M) with a positive common denominator: [num |-> matrix, den |-> d]
Inv(M) ==
    IF Det3(M) > 0 THEN [num |-> Adj(M), den |-> Det3(M)]
    ELSE [num |-> MatScale(-1, Adj(M)), den |-> -Det3(M)]

\* np.rint / np.around of the rational n/d (d > 0): round half to even
rint(n, d) ==
    LET q == n \div d
        r == n - q * d
    IN  IF 2 * r < d THEN q
        ELSE IF 2 * r > d THEN q + 1
        ELSE IF q % 2 = 0 THEN q ELSE q + 1

VRint(v, d) == <<rint(v[1], d), rint(v[2], d), rint(v[3], d)>>

VDivisible(v, d) == v[1] % d = 0 /\ v[2] % d = 0 /\ v[3] % d = 0

Range(s) == {s[i] : i \in 1..Len(s)}

\* ------------------------------------------------------------------------
\* permutation.py
\* ------------------------------------------------------------------------

\* Python list / numpy indexing a[k] with a possibly negative k
PyIndex(a, k) == IF k >= 0 THEN a[k + 1] ELSE a[Len(a) + k + 1]

\* PermCall reading the entry before idx
PermCallBefore(perm, idx) == PyIndex(perm, idx - 1)

\* Permutation.__call__
PermCall(perm, idx) == PyIndex(perm, idx)

\* The precondition asserted by Permutation.__mul__
PermMulAssert(lhs, rhs) == Len(rhs) = Len(lhs)

\* PermMul applying the left operand first
PermMulLeftFirst(lhs, rhs) ==
    [i \in 1..Len(lhs) |-> PermCall(rhs, PermCall(lhs, i - 1))]

\* Permutation.__mul__: (self * rhs)(i) = self(rhs(i))
PermMul(lhs, rhs) ==
    [i \in 1..Len(lhs) |-> PermCall(lhs, PermCall(rhs, i - 1))]

\* is_overlap with a displacement equal to symprec counted as a match
is_overlapInclusive(lattice, frac, den, symprecSq) ==
    LET diff == VSub(frac, VScale(den, VRint(frac, den)))
        cart == MatVec(Transpose(lattice), diff)
    IN  NormSq(cart) <= symprecSq * den * den

\* is_overlap: frac_coords = frac/den; norm(lattice.T @ (x - rint(x))) < symprec
is_overlap(lattice, frac, den, symprecSq) ==
    LET diff == VSub(frac, VScale(den, VRint(frac, den)))
        cart == MatVec(Transpose(lattice), diff)
    IN  NormSq(cart) < symprecSq * den * den

\* new_positions[i] - positions[j] for the operation (rot, trans)
Displacement(positions, rot, trans, i, j) ==
    VSub(VAdd(MatVec(rot, positions[i + 1]), trans), positions[j + 1])

\* The inner loop over j of get_symmetry_permutations for source site i:
\* the first unclaimed same-species target that overlaps, or -1
FirstFit(lattice, positions, numbers, den, rot, trans, symprecSq, found, i) ==
    LET n == Len(positions)
        ok == {j \in 0..(n - 1) :
                 /\ ~found[j + 1]
                 /\ numbers[i + 1] = numbers[j + 1]
                 /\ is_overlap(lattice,
                               Displacement(positions, rot, trans, i, j),
                               den, symprecSq)}
    IN  IF ok = {} THEN -1 ELSE CHOOSE j \in ok : \A k \in ok : j <= k

RECURSIVE MatchFrom(_, _, _, _, _, _, _, _, _, _)
\* The loop over i of get_symmetry_permutations, from site i on
MatchFrom(lattice, positions, numbers, den, rot, trans, symprecSq, perm, found, i) ==
    IF i >= Len(positions) THEN perm
    ELSE LET j == FirstFit(lattice, positions, numbers, den, rot, trans,
                           symprecSq, found, i)
         IN  IF j = -1
             THEN MatchFrom(lattice, positions, numbers, den, rot, trans,
                            symprecSq, perm, found, i + 1)
             ELSE MatchFrom(lattice, positions, numbers, den, rot, trans,
                            symprecSq, [perm EXCEPT ![i + 1] = j],
                            [found EXCEPT ![j + 1] = TRUE], i + 1)

\* perm after the loops of one operation (entries -1 where no target matched)
MatchOperation(lattice, positions, numbers, den, rot, trans, symprecSq) ==
    MatchFrom(lattice, positions, numbers, den, rot, trans, symprecSq,
              [i \in 1..Len(positions) |-> -1],
              [i \in 1..Len(positions) |-> FALSE], 0)

\* `perm != -1` at line 51: perm is a Python list and -1 an int, so the
\* comparison is not elementwise; a list never equals an int and the result
\* is the single value True whatever the entries of perm are.
ListNeInt(perm, k) == TRUE

\* np.all(perm != -1)
AllMatched(perm) == ListNeInt(perm, -1)

RECURSIVE get_symmetry_permutations(_, _, _, _, _, _)
\* ops is the zip of rotations and translations: a sequence of
\* [rot |-> .., trans |-> ..]; returns the list of appended permutations
get_symmetry_permutations(lattice, positions, numbers, den, ops, symprecSq) ==
    IF ops = <<>> THEN <<>>
    ELSE LET perm == MatchOperation(lattice, positions, numbers, den,
                                    Head(ops).rot, Head(ops).trans, symprecSq)
             rest == get_symmetry_permutations(lattice, positions, numbers,
                                               den, Tail(ops), symprecSq)
         IN  IF AllMatched(perm) THEN <<perm>> \o rest ELSE rest

\* ------------------------------------------------------------------------
\* Column-style Hermite normal form (hsnf), used by Phase B of group.py
\* ------------------------------------------------------------------------
\* A 3 x m integer matrix is handled as the sequence of its m columns.

\* Columns at positions >= r whose entry in row r is not zero
NonzeroCols(cs, r) == {j \in r..Len(cs) : cs[j][r] # 0}

\* The column holding the pivot of row r: least |entry|, lowest index
PivotCol(cs, r) ==
    CHOOSE p \in NonzeroCols(cs, r) :
        \A j \in NonzeroCols(cs, r) :
            \/ Abs(cs[p][r]) < Abs(cs[j][r])
            \/ (Abs(cs[p][r]) = Abs(cs[j][r]) /\ p <= j)

SwapCols(cs, a, b) == [cs EXCEPT ![a] = cs[b], ![b] = cs[a]]

RECURSIVE HnfRow(_, _)
\* Unimodular column operations that leave, among the columns >= r, one
\* positive entry in row r, at column r; then reduce row r of the columns < r
HnfRow(cs, r) ==
    IF NonzeroCols(cs, r) = {} THEN cs
    ELSE LET p == PivotCol(cs, r)
             pv == IF cs[p][r] < 0 THEN VScale(-1, cs[p]) ELSE cs[p]
         IN  IF NonzeroCols(cs, r) = {p}
             THEN LET sw == SwapCols([cs EXCEPT ![p] = pv], p, r)
                  IN  [j \in 1..Len(sw) |->
                         IF j < r
                         THEN VSub(sw[j], VScale(sw[j][r] \div pv[r], pv))
                         ELSE sw[j]]
             ELSE HnfRow([j \in 1..Len(cs) |->
                            IF j = p THEN pv
                            ELSE IF j >= r
                            THEN VSub(cs[j], VScale(cs[j][r] \div pv[r], pv))
                            ELSE cs[j]], r)

\* column_style_hermite_normal_form(M)[0] as a sequence of columns
column_style_hermite_normal_form(cs) == HnfRow(HnfRow(HnfRow(cs, 1), 2), 3)

\* The matrix whose columns are the first three columns of cs
FromCols(cs) == Transpose(<<cs[1], cs[2], cs[3]>>)

\* The columns of a matrix, as a sequence
Cols(M) == <<Col(M, 1), Col(M, 2), Col(M, 3)>>

\* ------------------------------------------------------------------------
\* The inputs: a crystal structure, its moments and the tolerances
\* ------------------------------------------------------------------------
\* The primitive lattice is cubic with edge 4 (Cartesian units), so that a
\* quarter of a primitive translation is one unit.  The input cell is the
\* supercell whose basis vectors are the columns of the integer matrix M in
\* primitive coordinates.  A site sits at c + u/4 for every centering c and
\* every atom u of the primitive basis.

\* Largest index |det M| of the input cell in the primitive lattice
MaxIndex == 4

\* Largest number of sites of an input cell
MaxSites == 4

\* Squares of the magnetic tolerances tried: none, below the least
\* difference of two moments of the pool, and below the next
MagSymprecSqPool == {0, 1, 2}

prim_lattice == <<<<4, 0, 0>>, <<0, 4, 0>>, <<0, 0, 4>>>>

TransformationPool ==
    {<<<<a, 0, 0>>, <<b, c, 0>>, <<0, 0, 1>>>> :
        <<a, b, c>> \in {t \in (1..MaxIndex) \X (0..MaxIndex) \X (1..MaxIndex) :
                            t[1] * t[3] <= MaxIndex /\ t[2] < t[3]}}

\* Atoms of the primitive cell, in quarters of the primitive basis, one
\* species: one atom, or two atoms exchanged by an inversion and by no
\* translation (so that the primitive cell is primitive)
BasisPool ==
    { <<Zero3>>, <<Zero3, <<1, 1, 1>>>> }

\* Moments of a site: none, up or down along z
MomentPool == {<<0, 0, 0>>, <<0, 0, 1>>, <<0, 0, -1>>}

C2z == <<<<-1, 0, 0>>, <<0, -1, 0>>, <<0, 0, 1>>>>

C4z == <<<<0, -1, 0>>, <<1, 0, 0>>, <<0, 0, 1>>>>

Inversion == MatScale(-1, Eye3)

\* The rotations the symmetry search tries, in primitive coordinates
RotationPool == <<Eye3, Inversion, C2z, C4z>>

LexLess(u, v) ==
    \/ u[1] < v[1]
    \/ (u[1] = v[1] /\ u[2] < v[2])
    \/ (u[1] = v[1] /\ u[2] = v[2] /\ u[3] < v[3])

RECURSIVE SortedSeq(_)
SortedSeq(S) ==
    IF S = {} THEN <<>>
    ELSE LET m == CHOOSE x \in S : \A y \in S : x = y \/ LexLess(x, y)
         IN  <<m>> \o SortedSeq(S \ {m})

\* The translations of the primitive lattice modulo the input cell, as
\* fractional coordinates of the input cell with numerators over |det M|
CellCenterings(M) ==
    LET d == Abs(Det3(M))
    IN  SortedSeq({x \in (0..(d - 1)) \X (0..(d - 1)) \X (0..(d - 1)) :
                      VDivisible(MatVec(M, x), d)})

\* Denominator of every fractional coordinate of the input cell
CellDen(M) == 4 * Abs(Det3(M))

\* lattice: rows are the basis vectors of the input cell (Cartesian)
CellLattice(M) == Transpose(MatMul(Transpose(prim_lattice), M))

\* positions (numerators over CellDen) of the sites: centering-major
CellPositions(M, basis) ==
    LET cents == CellCenterings(M)
        inv == Inv(M)
        nb == Len(basis)
    IN  [s \in 1..(Len(cents) * nb) |->
            LET c == cents[((s - 1) \div nb) + 1]
                u == basis[((s - 1) % nb) + 1]
            IN  VAdd(VScale(4, c), MatVec(inv.num, u))]

CellNumbers(M, basis) ==
    [s \in 1..(Len(CellCenterings(M)) * Len(basis)) |-> 1]

\* ------------------------------------------------------------------------
\* The symmetry search (spglib get_symmetry_dataset), called at group.py:57
\* ------------------------------------------------------------------------

VMod(v, d) == <<v[1] % d, v[2] % d, v[3] % d>>

\* (R, t/4) maps the atoms of the primitive cell onto themselves
IsPrimSymmetry(basis, R, t) ==
    \A i \in 1..Len(basis) : \E j \in 1..Len(basis) :
        VDivisible(VSub(VAdd(MatVec(R, basis[i]), t), basis[j]), 4)

\* The space-group operations of the primitive cell over RotationPool:
\* one translation (in quarters) for each rotation that is a symmetry
PrimOperations(basis) ==
    LET grid == (0..3) \X (0..3) \X (0..3)
        ts(R) == {t \in grid : IsPrimSymmetry(basis, R, t)}
    IN  SelectSeq([k \in 1..Len(RotationPool) |->
                      IF ts(RotationPool[k]) = {}
                      THEN [rot |-> RotationPool[k], trans |-> <<>>]
                      ELSE [rot |-> RotationPool[k],
                            trans |-> SortedSeq(ts(RotationPool[k]))[1]]],
                  LAMBDA op : op.trans # <<>>)

\* inv(M) @ R @ M is an integer matrix
CompatibleWithCell(M, R) ==
    LET X == MatMul(MatMul(Inv(M).num, R), M)
    IN  \A i \in 1..3 : VDivisible(X[i], Inv(M).den)

\* dataset["rotations"], dataset["translations"] for the input cell: every
\* centering combined with every rotation, centering-major; translations
\* are numerators over CellDen(M), reduced into [0, 1)
SymmetryDataset(M, basis) ==
    LET ops == SelectSeq(PrimOperations(basis),
                         LAMBDA op : CompatibleWithCell(M, op.rot))
        cents == CellCenterings(M)
        inv == Inv(M)
        n == Len(ops)
    IN  [k \in 1..(Len(cents) * n) |->
            LET c == cents[((k - 1) \div n) + 1]
                op == ops[((k - 1) % n) + 1]
                X == MatMul(MatMul(inv.num, op.rot), M)
            IN  [rot |-> [i \in 1..3 |-> [j \in 1..3 |-> X[i][j] \div inv.den]],
                 trans |-> VMod(VAdd(VScale(4, c), MatVec(inv.num, op.trans)),
                                CellDen(M))]]

\* ------------------------------------------------------------------------
\* group.py: get_symmetry_with_cell
\* ------------------------------------------------------------------------

RECURSIVE UniqueByRotation(_, _)
\* lines 63-76: the operations whose rotation was not seen before
UniqueByRotation(ops, found_rotations) ==
    IF ops = <<>> THEN <<>>
    ELSE IF Head(ops).rot \in found_rotations
    THEN UniqueByRotation(Tail(ops), found_rotations)
    ELSE <<Head(ops)>> \o
         UniqueByRotation(Tail(ops), found_rotations \cup {Head(ops).rot})

\* lines 67-69: the translations of the operations whose rotation is eye(3)
CenteringsOf(ops) ==
    LET sel == SelectSeq(ops, LAMBDA op : op.rot = Eye3)
    IN  [k \in 1..Len(sel) |-> sel[k].trans]

\* line 79: tmat = inv(prim_lattice.T) @ lattice.T, as [num, den]
PrimitiveTransformation(lattice) ==
    LET inv == Inv(Transpose(prim_lattice))
    IN  [num |-> MatMul(inv.num, Transpose(lattice)), den |-> inv.den]

\* line 80: |det(tmat)| is close to len(centerings)
WithCellAssert(tmat, centerings) ==
    Abs(Det3(tmat.num)) = Len(centerings) * tmat.den * tmat.den * tmat.den

\* np.around of the rational matrix num/den (den > 0)
MatAround(num, den) == [i \in 1..3 |-> VRint(num[i], den)]

\* line 105: np.around(tmat @ rot @ inv(tmat))
ToPrimRotation(tmat, rot) ==
    LET inv == Inv(tmat.num)
    IN  MatAround(MatMul(MatMul(tmat.num, rot), inv.num), inv.den)

\* MatchedOperations handing over every operation of the dataset
MatchedOperationsAll(uniq, dataset) == dataset

\* lines 87-88: the operations whose permutations are computed are the
\* unique-by-rotation ones
MatchedOperations(uniq, dataset) == uniq

\* get_symmetry_with_cell with the permutations of the rotations computed
\* on the first site alone
get_symmetry_with_cellRotationsOnFirstSite(lattice, positions, numbers, den, symprecSq, dataset) ==
    LET uniq == UniqueByRotation(dataset, {})
        centerings == CenteringsOf(dataset)
        tmat == PrimitiveTransformation(lattice)
    IN  [ prim_lattice |-> prim_lattice,
          prim_rotations |->
              [k \in 1..Len(uniq) |-> ToPrimRotation(tmat, uniq[k].rot)],
          prim_translations |->
              [k \in 1..Len(uniq) |-> MatVec(tmat.num, uniq[k].trans)],
          prim_permutations |->
              get_symmetry_permutations(lattice, SubSeq(positions, 1, 1),
                                        SubSeq(numbers, 1, 1), den,
                                        MatchedOperations(uniq, dataset), symprecSq),
          prim_centerings |->
              [k \in 1..Len(centerings) |-> MatVec(tmat.num, centerings[k])],
          prim_centering_permutations |->
              get_symmetry_permutations(lattice, positions, numbers, den,
                  [k \in 1..Len(centerings) |->
                      [rot |-> Eye3, trans |-> centerings[k]]],
                  symprecSq),
          transformation |-> MatAround(tmat.num, tmat.den),
          pden |-> tmat.den * den,
          assert_ok |-> WithCellAssert(tmat, centerings) ]

\* lines 82-120.  Translations and centerings of the result are numerators
\* over the denominator pden
get_symmetry_with_cell(lattice, positions, numbers, den, symprecSq, dataset) ==
    LET uniq == UniqueByRotation(dataset, {})
        centerings == CenteringsOf(dataset)
        tmat == PrimitiveTransformation(lattice)
    IN  [ prim_lattice |-> prim_lattice,
          prim_rotations |->
              [k \in 1..Len(uniq) |-> ToPrimRotation(tmat, uniq[k].rot)],
          prim_translations |->
              [k \in 1..Len(uniq) |-> MatVec(tmat.num, uniq[k].trans)],
          prim_permutations |->
              get_symmetry_permutations(lattice, positions, numbers, den,
                                        MatchedOperations(uniq, dataset), symprecSq),
          prim_centerings |->
              [k \in 1..Len(centerings) |-> MatVec(tmat.num, centerings[k])],
          prim_centering_permutations |->
              get_symmetry_permutations(lattice, positions, numbers, den,
                  [k \in 1..Len(centerings) |->
                      [rot |-> Eye3, trans |-> centerings[k]]],
                  symprecSq),
          transformation |-> MatAround(tmat.num, tmat.den),
          pden |-> tmat.den * den,
          assert_ok |-> WithCellAssert(tmat, centerings) ]

\* ------------------------------------------------------------------------
\* spin.py and utils.py (not part of the sources at hand): the rotation fit,
\* the spin-only group and the integrality test, from their specification
\* ------------------------------------------------------------------------

C2x == <<<<1, 0, 0>>, <<0, -1, 0>>, <<0, 0, -1>>>>

Mz == <<<<1, 0, 0>>, <<0, 1, 0>>, <<0, 0, -1>>>>

\* Orthogonal matrices the rotation fit may return.  For moments along z the
\* fit is decided by the image of the z axis alone, and the pool holds
\* proper and improper matrices for both images.
SpinRotationPool == {Eye3, C2z, C2x, Mz, Inversion}

\* magmoms[perm.permutation]
Permuted(magmoms, perm) == [i \in 1..Len(perm) |-> PyIndex(magmoms, perm[i])]

\* magmoms @ W.T
Rotated(magmoms, W) == [i \in 1..Len(magmoms) |-> MatVec(W, magmoms[i])]

RECURSIVE SumSq(_, _, _)
SumSq(A, B, i) ==
    IF i > Len(A) THEN 0 ELSE NormSq(VSub(A[i], B[i])) + SumSq(A, B, i + 1)

\* The orthogonal matrices W of the pool that minimise ||A @ W.T - B||;
\* the solver returns one of them
solve_procrustes(A, B) ==
    {W \in SpinRotationPool :
        \A V \in SpinRotationPool :
            SumSq(Rotated(A, W), B, 1) <= SumSq(Rotated(A, V), B, 1)}

\* get_spin_only_group(magmoms, mag_symprec).contain(W): W fixes every moment
SpinOnlyContain(magmoms, mag_symprecSq, W) ==
    \A i \in 1..Len(magmoms) :
        NormSq(VSub(MatVec(W, magmoms[i]), magmoms[i])) < mag_symprecSq

\* is_integer_array letting every matrix through
is_integer_arrayUnchecked(num, den) == TRUE

\* is_integer_array of the rational matrix num/den
is_integer_array(num, den) == \A i \in 1..3 : VDivisible(num[i], den)

\* ------------------------------------------------------------------------
\* group.py: get_primitive_spin_symmetry
\* ------------------------------------------------------------------------

\* np.max(np.linalg.norm(A - B, axis=1)) < mag_symprec
WithinTolerance(A, B, mag_symprecSq) ==
    \A i \in 1..Len(A) : NormSq(VSub(A[i], B[i])) < mag_symprecSq

\* zip(a, b) stops at the shorter list
ZipLen(a, b) == IF Len(a) < Len(b) THEN Len(a) ELSE Len(b)

\* Phase A, line 186: the centering with permutation perm is retained
Retained(magmoms, perm, mag_symprecSq) ==
    WithinTolerance(Permuted(magmoms, perm), magmoms, mag_symprecSq)

\* Phase A, lines 181-188: indices (1-based) of the retained centerings
RetainedIndices(nm, magmoms, mag_symprecSq) ==
    SelectSeq([k \in 1..ZipLen(nm.prim_centerings, nm.prim_centering_permutations) |-> k],
              LAMBDA k : Retained(magmoms, nm.prim_centering_permutations[k],
                                  mag_symprecSq))

\* A centering (numerators over pden) as the integer vector it is
AsInteger(v, pden) == <<v[1] \div pden, v[2] \div pden, v[3] \div pden>>

\* Phase B, lines 191-197: the columns of the concatenated matrix
StgVectors(transformation, stg_centerings, pden) ==
    Cols(transformation) \o
    [k \in 1..Len(stg_centerings) |-> AsInteger(stg_centerings[k], pden)]

\* Phase B, lines 198-199: leading three columns of the normal form
TmatStg(transformation, stg_centerings, pden) ==
    FromCols(column_style_hermite_normal_form(
                 StgVectors(transformation, stg_centerings, pden)))

\* Phase B, line 201: the asserted condition
PhaseBAssert(tmat_stg, stg_centerings) ==
    Abs(Det3(tmat_stg)) = Len(stg_centerings)

\* ReducedCentering without the product with tmat_stg of line 214
ReducedCenteringUnexpanded(tmat_stg, centering, pden) ==
    LET inv == Inv(tmat_stg)
        d == inv.den * pden
        red == MatVec(inv.num, centering)
    IN  VRint(VSub(red, VScale(d, VRint(red, d))), d)

\* Phase D, lines 212-214: the key under which a centering is deduplicated
ReducedCentering(tmat_stg, centering, pden) ==
    LET inv == Inv(tmat_stg)
        d == inv.den * pden
        red == MatVec(inv.num, centering)
        frac == VSub(red, VScale(d, VRint(red, d)))
    IN  VRint(MatVec(tmat_stg, frac), d)

\* Canonical leaving the fitted rotation as it is
CanonicalKept(magmoms, mag_symprecSq, W) == W

\* Canonical replacing proper rotations only
CanonicalOfProper(magmoms, mag_symprecSq, W) ==
    IF Det3(W) = 1 /\ SpinOnlyContain(magmoms, mag_symprecSq, W)
    THEN Eye3 ELSE W

\* lines 222-225 and 264-267: the fitted rotation, made the identity when the
\* spin-only group contains it
Canonical(magmoms, mag_symprecSq, W) ==
    IF SpinOnlyContain(magmoms, mag_symprecSq, W) THEN Eye3 ELSE W

\* Accepts without its test: every fitted operation is stored
AcceptsUntested(magmoms, perm, W, mag_symprecSq) == TRUE

\* Accepts comparing with the moments at their own sites
AcceptsUnpermuted(magmoms, perm, W, mag_symprecSq) ==
    WithinTolerance(Rotated(magmoms, W), magmoms, mag_symprecSq)

\* lines 227-228 and 269-270: the acceptance test of an operation
Accepts(magmoms, perm, W, mag_symprecSq) ==
    WithinTolerance(Rotated(magmoms, W), Permuted(magmoms, perm), mag_symprecSq)

\* lines 230-236: the operation appended for centering k (src is a ghost
\* field: the index of the centering the operation was built from)
TranslationOperation(tmat_stg, centering, pden, W, k) ==
    [ rotation |-> Eye3,
      translation |-> [num |-> MatVec(Inv(tmat_stg).num, centering),
                       den |-> Inv(tmat_stg).den * pden],
      spin_rotation |-> W,
      src |-> k ]

\* line 255: rot_prim = tmatinv_stg @ rot @ tmat_stg, as [num, den]
RotPrim(tmat_stg, rot) ==
    [num |-> MatMul(MatMul(Inv(tmat_stg).num, rot), tmat_stg),
     den |-> Inv(tmat_stg).den]

\* RotationOperation recording the rotation's translation alone
RotationOperationWithoutCentering(tmat_stg, rot, trans, centering, pden, W, r, c) ==
    [ rotation |-> [i \in 1..3 |-> [j \in 1..3 |->
                       RotPrim(tmat_stg, rot).num[i][j] \div RotPrim(tmat_stg, rot).den]],
      translation |-> [num |-> MatVec(Inv(tmat_stg).num, trans),
                       den |-> Inv(tmat_stg).den * pden],
      spin_rotation |-> W,
      src |-> r,
      csrc |-> c ]

\* lines 272-279: the operation appended for rotation r and centering
\* (src, csrc are ghost fields: the indices of the rotation and of the
\* retained centering)
RotationOperation(tmat_stg, rot, trans, centering, pden, W, r, c) ==
    [ rotation |-> [i \in 1..3 |-> [j \in 1..3 |->
                       RotPrim(tmat_stg, rot).num[i][j] \div RotPrim(tmat_stg, rot).den]],
      translation |-> [num |-> MatVec(Inv(tmat_stg).num, VAdd(centering, trans)),
                       den |-> Inv(tmat_stg).den * pden],
      spin_rotation |-> W,
      src |-> r,
      csrc |-> c ]

\* ScanEnds with the first retained centering the only one tried
ScanEndsAfterFirst(c, centerings) == c > 1

\* line 260: the zip over the retained centerings is exhausted at position c
ScanEnds(c, centerings) == c > Len(centerings)

\* AfterAccept without the break: the scan goes on to the next centering
AfterAcceptNoBreak(r, c) == <<r, c + 1>>

\* line 280: after an accepted operation the scan of the centerings stops;
\* the next position <<rotation, centering>> of the loops
AfterAccept(r, c) == <<r + 1, 1>>

\* lines 239-245 and 282-289: the returned SpinSpaceGroup
Assemble(nm, magmoms, mag_symprecSq, tmat_stg, stg_centerings, stc, ntc) ==
    LET pl == MatMul(nm.prim_lattice, tmat_stg)
    IN  [ prim_lattice |-> pl,
          spin_only_group |-> {W \in SpinRotationPool :
                                  SpinOnlyContain(magmoms, mag_symprecSq, W)},
          spin_translation_coset |-> stc,
          prim_centerings |->
              [k \in 1..Len(stg_centerings) |->
                  [num |-> MatVec(Inv(tmat_stg).num, stg_centerings[k]),
                   den |-> Inv(tmat_stg).den * nm.pden]],
          nontrivial_coset |-> ntc,
          transformation |->
              [num |-> MatMul(MatMul(Inv(pl).num, nm.prim_lattice), nm.transformation),
               den |-> Inv(pl).den] ]

\* ------------------------------------------------------------------------
\* State
\* ------------------------------------------------------------------------

\* The value of a variable that holds nothing yet
None == "none"

VARIABLES
    pc,                      \* position in the program
    input,                   \* the structure, its moments, the tolerances
    nonmag,                  \* the NonmagneticSymmetry of the structure
    stg,                     \* stg_centerings, stg_centering_permutations
    tmat_stg,                \* Phase B: the transformation T
    found_stg_centerings,    \* Phase D: keys of the centerings seen
    spin_translation_coset,
    nontrivial_coset,
    loop,                    \* <<rotation, centering>> position of a loop
    result,                  \* the returned SpinSpaceGroup
    \* get_symmetry_permutations
    args,                    \* its arguments
    permutations,            \* the list being built
    matched,                 \* per operation handled: perm and whether appended
    \* traverse_spin_operations
    generators,
    que,
    founds,
    \* get_canonical_pointgroup
    prim_rotations,          \* its argument
    pointgroup,              \* what get_pointgroup returned: symbol and P
    entry,                   \* the catalogue entry under test (0-based)
    outcome                  \* the value returned by the function at hand

asmVars == <<input, nonmag, stg, tmat_stg, found_stg_centerings,
             spin_translation_coset, nontrivial_coset, loop, result>>

permVars == <<args, permutations, matched>>

travVars == <<generators, que, founds>>

canonVars == <<prim_rotations, pointgroup, entry>>

vars == <<pc, asmVars, permVars, travVars, canonVars, outcome>>

\* The variables of the functions that are not running
AsmIdle ==
    /\ input = None /\ nonmag = None /\ stg = None /\ tmat_stg = None
    /\ found_stg_centerings = {} /\ spin_translation_coset = <<>>
    /\ nontrivial_coset = <<>> /\ loop = <<1, 1>> /\ result = None

PermIdle == args = None /\ permutations = <<>> /\ matched = <<>>

TravIdle == generators = <<>> /\ que = <<>> /\ founds = {}

CanonIdle == prim_rotations = <<>> /\ pointgroup = None /\ entry = 0


NumSites(M, basis) == Abs(Det3(M)) * Len(basis)

\* ------------------------------------------------------------------------
\* get_symmetry_with_cell followed by get_primitive_spin_symmetry
\* ------------------------------------------------------------------------

\* The arguments of the two calls for the structure (M, basis); M, basis and
\* cents only describe the structure and are not read by the program
Input(M, basis, magmoms, tol) ==
    [ lattice |-> CellLattice(M),
      positions |-> CellPositions(M, basis),
      numbers |-> CellNumbers(M, basis),
      den |-> CellDen(M),
      symprecSq |-> 1,
      magmoms |-> magmoms,
      mag_symprecSq |-> tol,
      M |-> M,
      basis |-> basis,
      cents |-> CellCenterings(M) ]

\* The structures of the model
Structures ==
    {st \in TransformationPool \X BasisPool : NumSites(st[1], st[2]) <= MaxSites}

\* get_symmetry_with_cell is a function of the structure alone: its value
\* for every structure of the model
\* for every structure of the model, as pairs <<structure, value>>
WithCellTable ==
    {<<st, get_symmetry_with_cell(CellLattice(st[1]), CellPositions(st[1], st[2]),
                                  CellNumbers(st[1], st[2]), CellDen(st[1]), 1,
                                  SymmetryDataset(st[1], st[2]))>> :
        st \in Structures}

WithCell(M, basis) == (CHOOSE e \in WithCellTable : e[1] = <<M, basis>>)[2]

Init ==
    /\ pc = "with_cell"
    /\ \E M \in TransformationPool, basis \in BasisPool :
          /\ <<M, basis>> \in Structures
          /\ \E magmoms \in [1..NumSites(M, basis) -> MomentPool],
                tol \in MagSymprecSqPool :
                input = Input(M, basis, magmoms, tol)
    /\ nonmag = None
    /\ stg = None
    /\ tmat_stg = None
    /\ found_stg_centerings = {}
    /\ spin_translation_coset = <<>>
    /\ nontrivial_coset = <<>>
    /\ loop = <<1, 1>>
    /\ result = None
    /\ outcome = None
    /\ PermIdle /\ TravIdle /\ CanonIdle

\* group.py:50-120
GetSymmetryWithCell ==
    /\ pc = "with_cell"
    /\ nonmag' = WithCell(input.M, input.basis)
    /\ pc' = IF nonmag'.assert_ok THEN "phaseA" ELSE "abort_with_cell"
    /\ UNCHANGED <<input, stg, tmat_stg, found_stg_centerings,
                   spin_translation_coset, nontrivial_coset, loop, result>>
    /\ UNCHANGED <<permVars, travVars, canonVars, outcome>>

\* group.py:180-188
PhaseA ==
    /\ pc = "phaseA"
    /\ LET kept == RetainedIndices(nonmag, input.magmoms, input.mag_symprecSq)
       IN  stg' = [ centerings |-> [k \in 1..Len(kept) |-> nonmag.prim_centerings[kept[k]]],
                    perms |-> [k \in 1..Len(kept) |->
                                  nonmag.prim_centering_permutations[kept[k]]],
                    src |-> kept ]
    /\ pc' = "phaseB"
    /\ UNCHANGED <<input, nonmag, tmat_stg, found_stg_centerings,
                   spin_translation_coset, nontrivial_coset, loop, result>>
    /\ UNCHANGED <<permVars, travVars, canonVars, outcome>>

\* group.py:190-204.  With no retained centering np.array([]).T has one
\* dimension and np.concatenate raises; otherwise the assertion decides.
PhaseB ==
    /\ pc = "phaseB"
    /\ IF stg.centerings = <<>>
       THEN /\ pc' = "abort_concat"
            /\ UNCHANGED tmat_stg
       ELSE /\ tmat_stg' = TmatStg(nonmag.transformation, stg.centerings, nonmag.pden)
            /\ pc' = IF PhaseBAssert(tmat_stg', stg.centerings)
                     THEN "phaseD" ELSE "abort_assert"
    /\ UNCHANGED <<input, nonmag, stg, found_stg_centerings,
                   spin_translation_coset, nontrivial_coset, loop, result>>
    /\ UNCHANGED <<permVars, travVars, canonVars, outcome>>

\* group.py:206-236, one iteration of the loop over the centerings
PhaseD ==
    /\ pc = "phaseD"
    /\ LET k == loop[2]
           n == ZipLen(nonmag.prim_centerings, nonmag.prim_centering_permutations)
       IN  IF k > n
           THEN /\ pc' = "phaseE"
                /\ loop' = <<1, 1>>
                /\ UNCHANGED <<found_stg_centerings, spin_translation_coset>>
           ELSE LET centering == nonmag.prim_centerings[k]
                    perm == nonmag.prim_centering_permutations[k]
                    key == ReducedCentering(tmat_stg, centering, nonmag.pden)
                IN  /\ pc' = pc
                    /\ loop' = <<1, k + 1>>
                    /\ IF key \in found_stg_centerings
                       THEN UNCHANGED <<found_stg_centerings, spin_translation_coset>>
                       ELSE /\ found_stg_centerings' = found_stg_centerings \cup {key}
                            /\ \E W0 \in solve_procrustes(input.magmoms,
                                             Permuted(input.magmoms, perm)) :
                                 LET W == Canonical(input.magmoms, input.mag_symprecSq, W0)
                                 IN  spin_translation_coset' =
                                       IF Accepts(input.magmoms, perm, W, input.mag_symprecSq)
                                       THEN Append(spin_translation_coset,
                                                TranslationOperation(tmat_stg, centering,
                                                                     nonmag.pden, W, k))
                                       ELSE spin_translation_coset
    /\ UNCHANGED <<input, nonmag, stg, tmat_stg, nontrivial_coset, result>>
    /\ UNCHANGED <<permVars, travVars, canonVars, outcome>>

\* Number of (rotation, translation, permutation) triples zipped at line 249
NumTriples(nm) ==
    ZipLen(nm.prim_rotations,
           [k \in 1..ZipLen(nm.prim_translations, nm.prim_permutations) |-> k])

\* group.py:247-280, one step of the loops over rotations and centerings
PhaseE ==
    /\ pc = "phaseE"
    /\ LET r == loop[1]
           c == loop[2]
       IN  IF r > NumTriples(nonmag)
           THEN /\ pc' = "assemble"
                /\ UNCHANGED <<loop, nontrivial_coset>>
           ELSE LET rot == nonmag.prim_rotations[r]
                    trans == nonmag.prim_translations[r]
                    perm == nonmag.prim_permutations[r]
                    rp == RotPrim(tmat_stg, rot)
                IN  IF ~is_integer_array(rp.num, rp.den) \/ ScanEnds(c, stg.centerings)
                    THEN /\ pc' = pc
                         /\ loop' = <<r + 1, 1>>
                         /\ UNCHANGED nontrivial_coset
                    ELSE IF ~PermMulAssert(stg.perms[c], perm)
                    THEN /\ pc' = "abort_mul"
                         /\ UNCHANGED <<loop, nontrivial_coset>>
                    ELSE LET new_perm == PermMul(stg.perms[c], perm)
                         IN  \E W0 \in solve_procrustes(input.magmoms,
                                           Permuted(input.magmoms, new_perm)) :
                               LET W == Canonical(input.magmoms, input.mag_symprecSq, W0)
                               IN  IF Accepts(input.magmoms, new_perm, W, input.mag_symprecSq)
                                   THEN /\ nontrivial_coset' =
                                             Append(nontrivial_coset,
                                                 RotationOperation(tmat_stg, rot, trans,
                                                     stg.centerings[c], nonmag.pden, W, r, c))
                                        /\ loop' = AfterAccept(r, c)
                                        /\ pc' = pc
                                   ELSE /\ loop' = <<r, c + 1>>
                                        /\ pc' = pc
                                        /\ UNCHANGED nontrivial_coset
    /\ UNCHANGED <<input, nonmag, stg, tmat_stg, found_stg_centerings,
                   spin_translation_coset, result>>
    /\ UNCHANGED <<permVars, travVars, canonVars, outcome>>

\* group.py:238-245 and 282-289
Return ==
    /\ pc = "assemble"
    /\ result' = Assemble(nonmag, input.magmoms, input.mag_symprecSq, tmat_stg,
                          stg.centerings, spin_translation_coset, nontrivial_coset)
    /\ pc' = "done"
    /\ UNCHANGED <<input, nonmag, stg, tmat_stg, found_stg_centerings,
                   spin_translation_coset, nontrivial_coset, loop>>
    /\ UNCHANGED <<permVars, travVars, canonVars, outcome>>

Next ==
    \/ GetSymmetryWithCell
    \/ PhaseA
    \/ PhaseB
    \/ PhaseD
    \/ PhaseE
    \/ Return

Spec == Init /\ [][Next]_vars

\* ------------------------------------------------------------------------
\* get_symmetry_permutations called on its own (permutation.py:27-54)
\* ------------------------------------------------------------------------
\* The caller is free in the operations it passes: they need not be
\* symmetries of the structure.

\* Largest number of sites of a structure passed in
MaxPermSites == 2

\* Largest number of operations passed in
MaxOps == 2

\* Fractional coordinates along the first axis, numerators over PermDen
PermPositionPool == {<<p, 0, 0>> : p \in 0..3}

PermDen == CellDen(Eye3)

PermOperationPool ==
    {[rot |-> R, trans |-> t] : R \in {Eye3, Inversion}, t \in PermPositionPool}

PermSymprecSqPool == {1, 2, 4}

\* Sequences over S of length lo..hi
SeqsBetween(S, lo, hi) == UNION {[1..n -> S] : n \in lo..hi}

\* The sites are pairwise at different positions
DistinctSites(positions) ==
    \A i, j \in 1..Len(positions) : i # j => positions[i] # positions[j]

InitPerm ==
    /\ pc = "perm_loop"
    /\ \E positions \in SeqsBetween(PermPositionPool, 1, MaxPermSites),
          ops \in SeqsBetween(PermOperationPool, 1, MaxOps),
          tol \in PermSymprecSqPool :
          /\ DistinctSites(positions)
          /\ \E numbers \in [1..Len(positions) -> {1, 2}] :
                args = [lattice |-> prim_lattice, positions |-> positions,
                        numbers |-> numbers, den |-> PermDen, ops |-> ops,
                        symprecSq |-> tol]
    /\ permutations = <<>>
    /\ matched = <<>>
    /\ outcome = None
    /\ AsmIdle /\ TravIdle /\ CanonIdle

\* lines 38-52: one pass of the loop over the operations.  matched records,
\* for the operation handled, the perm left by the inner loops and whether
\* it was appended.
PermOperation ==
    /\ pc = "perm_loop"
    /\ Len(matched) < Len(args.ops)
    /\ LET op == args.ops[Len(matched) + 1]
           perm == MatchOperation(args.lattice, args.positions, args.numbers,
                                  args.den, op.rot, op.trans, args.symprecSq)
       IN  /\ permutations' = IF AllMatched(perm)
                              THEN Append(permutations, perm)
                              ELSE permutations
           /\ matched' = Append(matched, [perm |-> perm,
                                          appended |-> AllMatched(perm)])
    /\ UNCHANGED <<pc, args, asmVars, travVars, canonVars, outcome>>

\* line 54: return permutations
PermReturn ==
    /\ pc = "perm_loop"
    /\ Len(matched) = Len(args.ops)
    /\ pc' = "perm_done"
    /\ outcome' = permutations
    /\ UNCHANGED <<args, permutations, matched, asmVars, travVars, canonVars>>

NextPerm ==
    \/ PermOperation
    \/ PermReturn

SpecPerm == InitPerm /\ [][NextPerm]_vars

\* ------------------------------------------------------------------------
\* traverse_spin_operations (pointgroup.py:1379-1401)
\* ------------------------------------------------------------------------
\* An element is a pair <<rotation, spin rotation>> of 3 x 3 integer matrices.

\* Largest number of generators passed in
MaxGens == 2

\* utils.ndarray2d_to_integer_tuple: the entries rounded to integers
ndarray2d_to_integer_tuple(num, den) == MatAround(num, den)

\* lines 1393-1396: gh, the component-wise matrix product
ElementProduct(g, h) ==
    <<ndarray2d_to_integer_tuple(MatMul(g[1], h[1]), 1),
      ndarray2d_to_integer_tuple(MatMul(g[2], h[2]), 1)>>

TravGeneratorPool ==
    {<<R, W>> : R \in {Eye3, C4z, C2x}, W \in {Eye3, Inversion}}

\* A number that tells two matrices with entries in -1..1 apart
RowKey(row) == (row[1] + 1) + 3 * (row[2] + 1) + 9 * (row[3] + 1)

MatrixKey(M) == RowKey(M[1]) + 27 * RowKey(M[2]) + 729 * RowKey(M[3])

ElementKey(g) == MatrixKey(g[1]) + 19683 * MatrixKey(g[2])

\* K is a set of <<key, element>> with distinct keys; the elements by
\* ascending key
AscendingKeyed(K) ==
    [i \in 1..Cardinality(K) |->
        (CHOOSE x \in K : Cardinality({y \in K : y[1] < x[1]}) = i - 1)[2]]

\* The elements of K by descending key
DescendingKeyed(K) ==
    [i \in 1..Cardinality(K) |->
        (CHOOSE x \in K : Cardinality({y \in K : y[1] > x[1]}) = i - 1)[2]]

Keyed(S) == {<<ElementKey(x), x>> : x \in S}

AscendingByKey(S) == AscendingKeyed(Keyed(S))

\* AscendingByKey read from the right end
Reversed(S) == DescendingKeyed(Keyed(S))

\* The order in which a set is iterated follows the hashes of its elements
\* and is not fixed by the language: either of two opposite orders
IterationOrders(S) == {AscendingByKey(S), Reversed(S)}

\* IteratedSet taken before g is added
IteratedSetBeforeAdd(fnd, g) == fnd

\* lines 1390-1392: founds.add(g) comes before `for h in founds`, so the
\* loop meets g itself
IteratedSet(fnd, g) == fnd \cup {g}

RECURSIVE Enqueued(_, _, _, _)
\* lines 1392-1398: the products g.h appended to que, h running over hs from
\* position k on, skipping those in fnd
Enqueued(g, hs, fnd, k) ==
    IF k > Len(hs) THEN <<>>
    ELSE LET gh == ElementProduct(g, hs[k])
         IN  IF gh \in fnd THEN Enqueued(g, hs, fnd, k + 1)
             ELSE <<gh>> \o Enqueued(g, hs, fnd, k + 1)

\* AfterPop reading the right end without removing it
AfterPopKept(q) == q

\* line 1387: que after que.pop()
AfterPop(q) == SubSeq(q, 1, Len(q) - 1)

\* outcome is the returned tuple; it is empty until the return, which yields
\* at least one element
InitTraverse ==
    /\ pc = "trav_loop"
    /\ generators \in SeqsBetween(TravGeneratorPool, 1, MaxGens)
    /\ que = generators
    /\ founds = {}
    /\ outcome = <<>>
    /\ AsmIdle /\ PermIdle /\ CanonIdle

\* lines 1386-1398: one pass of the while loop; que.pop() takes the element
\* at the right end
TravPop ==
    /\ pc = "trav_loop"
    /\ Len(que) > 0
    /\ LET g == que[Len(que)]
           rest == AfterPop(que)
       IN  IF g \in founds
           THEN que' = rest /\ UNCHANGED founds
           ELSE /\ founds' = founds \cup {g}
                /\ \E hs \in IterationOrders(IteratedSet(founds, g)) :
                      que' = rest \o Enqueued(g, hs, founds \cup {g}, 1)
    /\ UNCHANGED <<pc, generators, asmVars, permVars, canonVars, outcome>>

\* line 1400: return tuple(founds)
TravReturn ==
    /\ pc = "trav_loop"
    /\ Len(que) = 0
    /\ pc' = "trav_done"
    /\ outcome' \in IterationOrders(founds)
    /\ UNCHANGED <<generators, que, founds, asmVars, permVars, canonVars>>

NextTraverse ==
    \/ TravPop
    \/ TravReturn

SpecTraverse == InitTraverse /\ [][NextTraverse]_vars

\* The interpreter runs the loop for as long as a pass or the return is
\* possible; each of them changes pc, que or founds
SpecTraverseFair == SpecTraverse /\ WF_<<pc, travVars>>(NextTraverse)

\* ------------------------------------------------------------------------
\* get_canonical_pointgroup (pointgroup.py:1355-1376)
\* ------------------------------------------------------------------------
\* get_pointgroup (spglib) and pg_dataset (spgrep) are outside the
\* repository: the first is an oracle giving the symbol of the class and
\* some invertible P, the second a catalogue with a few settings per symbol.

C2y == <<<<-1, 0, 0>>, <<0, 1, 0>>, <<0, 0, -1>>>>

C4z3 == MatMul(C4z, MatMul(C4z, C4z))

\* x -> y -> z -> x
AxisCycle == <<<<0, 0, 1>>, <<1, 0, 0>>, <<0, 1, 0>>>>

\* The catalogue: for each symbol the list of its settings, each a list of
\* rotations
pg_dataset(symbol) ==
    CASE symbol = "1"   -> <<<<Eye3>>>>
      [] symbol = "-1"  -> <<<<Eye3, Inversion>>>>
      [] symbol = "2"   -> <<<<Eye3, C2y>>, <<Eye3, C2z>>>>
      [] symbol = "222" -> <<<<Eye3, C2z, C2y, C2x>>>>
      [] symbol = "4"   -> <<<<Eye3, C4z, C2z, C4z3>>>>

\* The class of a group of rotations, as get_pointgroup names it
PointgroupSymbol(group) ==
    CASE Cardinality(group) = 1 -> "1"
      [] Cardinality(group) = 2 /\ Inversion \in group -> "-1"
      [] Cardinality(group) = 2 /\ Inversion \notin group -> "2"
      [] Cardinality(group) = 4 /\ (\A R \in group : MatMul(R, R) = Eye3) -> "222"
      [] OTHER -> "4"

PointgroupPool ==
    {{Eye3}, {Eye3, Inversion}, {Eye3, C2x}, {Eye3, C2y}, {Eye3, C2z},
     {Eye3, C2x, C2y, C2z}, {Eye3, C4z, C2z, C4z3}}

\* The transformation matrices get_pointgroup may hand back
PointgroupTransformationPool ==
    {Eye3, AxisCycle, <<<<2, 0, 0>>, <<0, 1, 0>>, <<0, 0, 1>>>>}

\* The lists without repetition of the elements of S
Orderings(S) ==
    {q \in [1..Cardinality(S) -> S] : \A i, j \in 1..Cardinality(S) : i # j => q[i] # q[j]}

\* line 1364: matched = [ndarray2d_to_integer_tuple(Pinv @ r @ P) ...]
Conjugated(rotations, P) ==
    [k \in 1..Len(rotations) |->
        ndarray2d_to_integer_tuple(MatMul(MatMul(Inv(P).num, rotations[k]), P),
                                   Inv(P).den)]

\* list.index: the 0-based position of the first occurrence, -1 standing
\* for the ValueError of an absent value
ListIndex(list, x) ==
    IF \E j \in 1..Len(list) : list[j] = x
    THEN (CHOOSE j \in 1..Len(list) :
             list[j] = x /\ \A m \in 1..(j - 1) : list[m] # x) - 1
    ELSE -1

\* lines 1366-1374: success of the inner loop for one catalogue entry
EntrySuccess(std_rotations, conj) ==
    \A i \in 1..Len(std_rotations) : ListIndex(conj, std_rotations[i]) # -1

\* EntryMapping pairing catalogue rotation i with input rotation i
EntryMappingPositional(std_rotations, conj, order) == [i \in 1..order |-> i - 1]

\* lines 1367-1373: mapping, of length order = len(prim_rotations)
EntryMapping(std_rotations, conj, order) ==
    [i \in 1..order |->
        IF i <= Len(std_rotations) THEN ListIndex(conj, std_rotations[i]) ELSE -1]

InitCanon ==
    /\ pc = "canon_start"
    /\ \E group \in PointgroupPool : prim_rotations \in Orderings(group)
    /\ pointgroup = None
    /\ entry = 0
    /\ outcome = None
    /\ AsmIdle /\ PermIdle /\ TravIdle

\* lines 1358-1359
CanonGetPointgroup ==
    /\ pc = "canon_start"
    /\ \E P \in PointgroupTransformationPool :
          pointgroup' = [symbol |-> PointgroupSymbol(Range(prim_rotations)),
                         P |-> P]
    /\ pc' = "canon_loop"
    /\ UNCHANGED <<prim_rotations, entry, asmVars, permVars, travVars, outcome>>

\* lines 1363-1376: one pass of the loop over the catalogue entries
CanonEntry ==
    /\ pc = "canon_loop"
    /\ entry < Len(pg_dataset(pointgroup.symbol))
    /\ LET std_rotations == pg_dataset(pointgroup.symbol)[entry + 1]
           conj == Conjugated(prim_rotations, pointgroup.P)
       IN  IF EntrySuccess(std_rotations, conj)
           THEN /\ outcome' = [symbol |-> pointgroup.symbol, idx |-> entry,
                               mapping |-> EntryMapping(std_rotations, conj,
                                                        Len(prim_rotations))]
                /\ pc' = "canon_done"
                /\ UNCHANGED entry
           ELSE /\ entry' = entry + 1
                /\ UNCHANGED <<pc, outcome>>
    /\ UNCHANGED <<prim_rotations, pointgroup, asmVars, permVars, travVars>>

\* The loop ends with no entry matched: the function body ends, which
\* returns None
CanonFallOff ==
    /\ pc = "canon_loop"
    /\ entry = Len(pg_dataset(pointgroup.symbol))
    /\ pc' = "canon_none"
    /\ outcome' = None
    /\ UNCHANGED <<prim_rotations, pointgroup, entry, asmVars, permVars, travVars>>

NextCanon ==
    \/ CanonGetPointgroup
    \/ CanonEntry
    \/ CanonFallOff

SpecCanon == InitCanon /\ [][NextCanon]_vars

\* ------------------------------------------------------------------------
\* The reduction of a centering in Phase D (group.py:212-214) on its own
\* ------------------------------------------------------------------------
\* args holds tmat_stg and the integer vector, outcome the reduced vector.

\* Largest absolute value of a component of the vector reduced
MaxComponent == 2

\* Nonsingular integer matrices: the normal forms Phase B can produce, their
\* transposes and negatives, and two matrices that are not triangular
ReductionMatrixPool ==
    TransformationPool
    \cup {Transpose(M) : M \in TransformationPool}
    \cup {MatScale(-1, M) : M \in TransformationPool}
    \cup {<<<<0, 1, 0>>, <<2, 0, 0>>, <<0, 0, 1>>>>,
          <<<<1, 1, 0>>, <<-1, 1, 0>>, <<0, 1, 2>>>>}

InitReduce ==
    /\ pc = "reduce"
    /\ \E T \in ReductionMatrixPool,
          c \in (-MaxComponent..MaxComponent) \X (-MaxComponent..MaxComponent)
                \X (-MaxComponent..MaxComponent) :
          args = [tmat_stg |-> T, centering |-> c]
    /\ permutations = <<>>
    /\ matched = <<>>
    /\ outcome = None
    /\ AsmIdle /\ TravIdle /\ CanonIdle

\* lines 212-214
ReduceCentering ==
    /\ pc = "reduce"
    /\ outcome' = ReducedCentering(args.tmat_stg, args.centering, 1)
    /\ pc' = "reduce_done"
    /\ UNCHANGED <<permVars, asmVars, travVars, canonVars>>

NextReduce ==
    \/ ReduceCentering

SpecReduce == InitReduce /\ [][NextReduce]_vars

\* ------------------------------------------------------------------------
\* Permutation.__mul__ (permutation.py:10-24)
\* ------------------------------------------------------------------------
\* Three permutations f, g, h of one length and the identity e of that length
\* are the operands; outcome holds the product objects made so far, <<>>
\* standing for a product not made yet.

\* Largest length of a permutation
MaxMulLen == 3

\* The arrays of length n holding each of 0..n-1 once
PermutationsOf(n) ==
    {p \in [1..n -> 0..(n - 1)] : \A i, j \in 1..n : i # j => p[i] # p[j]}

\* e: index i at position i
IdentityPermutation(n) == [i \in 1..n |-> i - 1]

\* The products made, as <<product, left operand, right operand>>
MulCalls ==
    {<<"fg", "f", "g">>, <<"gh", "g", "h">>, <<"fg_h", "fg", "h">>,
     <<"f_gh", "f", "gh">>, <<"ef", "e", "f">>, <<"fe", "f", "e">>}

MulNames == {call[1] : call \in MulCalls}

\* The object a name stands for: an operand or a product made earlier
MulObject(name) == IF name \in MulNames THEN outcome[name] ELSE args[name]

InitMul ==
    /\ pc = "mul"
    /\ \E n \in 1..MaxMulLen :
          \E f, g, h \in PermutationsOf(n) :
             args = [f |-> f, g |-> g, h |-> h, e |-> IdentityPermutation(n)]
    /\ outcome = [name \in MulNames |-> <<>>]
    /\ permutations = <<>>
    /\ matched = <<>>
    /\ AsmIdle /\ TravIdle /\ CanonIdle

\* lines 17-24: one call lhs * rhs; the result is a new object, and nothing
\* is written to self.permutation or rhs.permutation
Mul ==
    /\ pc = "mul"
    /\ \E call \in MulCalls :
          /\ outcome[call[1]] = <<>>
          /\ MulObject(call[2]) # <<>>
          /\ MulObject(call[3]) # <<>>
          /\ PermMulAssert(MulObject(call[2]), MulObject(call[3]))
          /\ outcome' = [outcome EXCEPT ![call[1]] =
                            PermMul(MulObject(call[2]), MulObject(call[3]))]
    /\ UNCHANGED <<pc, permVars, asmVars, travVars, canonVars>>

NextMul ==
    \/ Mul

SpecMul == InitMul /\ [][NextMul]_vars

\* ------------------------------------------------------------------------
\* get_primitive_spin_symmetry called with a NonmagneticSymmetry of the
\* caller's making (group.py:160-289)
\* ------------------------------------------------------------------------
\* A chain of ChainSites sites along the second axis, one per primitive
\* cell: the centerings are the shifts by 0..ChainSites-1 cells, and the
\* second rotation comes with any permutation of the sites.

\* Number of sites of the chain
ChainSites == 4

\* The permutation of the shift by k cells
ShiftPermutation(n, k) == [i \in 1..n |-> (i - 1 + k) % n]

\* The NonmagneticSymmetry of the chain whose second rotation permutes the
\* sites by perm
ChainSymmetry(n, perm) ==
    [ prim_lattice |-> prim_lattice,
      prim_rotations |-> <<Eye3, Inversion>>,
      prim_translations |-> <<Zero3, Zero3>>,
      prim_permutations |-> <<IdentityPermutation(n), perm>>,
      prim_centerings |-> [k \in 1..n |-> <<0, k - 1, 0>>],
      prim_centering_permutations |-> [k \in 1..n |-> ShiftPermutation(n, k - 1)],
      transformation |-> <<<<1, 0, 0>>, <<0, n, 0>>, <<0, 0, 1>>>>,
      pden |-> 1,
      assert_ok |-> TRUE ]

InitAssemble ==
    /\ pc = "phaseA"
    /\ \E magmoms \in [1..ChainSites -> MomentPool],
          tol \in MagSymprecSqPool,
          perm \in PermutationsOf(ChainSites) :
          /\ input = [magmoms |-> magmoms, mag_symprecSq |-> tol]
          /\ nonmag = ChainSymmetry(ChainSites, perm)
    /\ stg = None
    /\ tmat_stg = None
    /\ found_stg_centerings = {}
    /\ spin_translation_coset = <<>>
    /\ nontrivial_coset = <<>>
    /\ loop = <<1, 1>>
    /\ result = None
    /\ outcome = None
    /\ PermIdle /\ TravIdle /\ CanonIdle

NextAssemble ==
    \/ PhaseA
    \/ PhaseB
    \/ PhaseD
    \/ PhaseE
    \/ Return

SpecAssemble == InitAssemble /\ [][NextAssemble]_vars

\* ------------------------------------------------------------------------
\* get_primitive_spin_symmetry called twice, the second time with the
\* centerings of the first call listed in another order
\* ------------------------------------------------------------------------

\* nm with prim_centerings and prim_centering_permutations listed in the
\* order given (positions counted from 0)
Reordered(nm, order) ==
    [nm EXCEPT
        !.prim_centerings =
            [k \in 1..Len(order) |-> nm.prim_centerings[order[k] + 1]],
        !.prim_centering_permutations =
            [k \in 1..Len(order) |-> nm.prim_centering_permutations[order[k] + 1]]]

\* The orders the second call lists the n centerings in: the list
\* reversed, its first two entries exchanged, and the list turned by one
Reorderings(n) ==
    { [i \in 1..n |-> n - i],
      [i \in 1..n |-> IF i = 1 THEN 1 ELSE IF i = 2 THEN 0 ELSE i - 1],
      [i \in 1..n |-> i % n] }

\* The permutations the second rotation comes with: the sites fixed, the
\* chain turned over, and the sites after the first moved on by one
ChainPermutations(n) ==
    { IdentityPermutation(n),
      [i \in 1..n |-> (n - (i - 1)) % n],
      [i \in 1..n |-> IF i = 1 THEN 0 ELSE ((i - 1) % (n - 1)) + 1] }

\* What is kept of a returned nontrivial_coset: the rotation each operation
\* was built from, its rotation part and its translation
Kept(coset) ==
    [k \in 1..Len(coset) |->
        [src |-> coset[k].src, rotation |-> coset[k].rotation,
         translation |-> coset[k].translation]]

\* outcome holds what is kept of the calls that have returned
InitReorder ==
    /\ pc = "phaseA"
    /\ \E magmoms \in [1..ChainSites -> MomentPool], tol \in MagSymprecSqPool,
          perm \in ChainPermutations(ChainSites) :
          /\ input = [magmoms |-> magmoms, mag_symprecSq |-> tol]
          /\ nonmag = ChainSymmetry(ChainSites, perm)
    /\ stg = None /\ tmat_stg = None /\ found_stg_centerings = {}
    /\ spin_translation_coset = <<>> /\ nontrivial_coset = <<>>
    /\ loop = <<1, 1>> /\ result = None /\ outcome = <<>>
    /\ PermIdle /\ TravIdle /\ CanonIdle

\* The second call: the same moments and tolerance, the centerings reordered
CallAgain ==
    /\ pc = "done"
    /\ Len(outcome) = 0
    /\ outcome' = <<Kept(nontrivial_coset)>>
    /\ \E order \in Reorderings(ChainSites) : nonmag' = Reordered(nonmag, order)
    /\ pc' = "phaseA"
    /\ stg' = None /\ tmat_stg' = None /\ found_stg_centerings' = {}
    /\ spin_translation_coset' = <<>> /\ nontrivial_coset' = <<>>
    /\ loop' = <<1, 1>> /\ result' = None
    /\ UNCHANGED <<input, permVars, travVars, canonVars>>

NextReorder == \/ PhaseA \/ PhaseB \/ PhaseD \/ PhaseE \/ Return \/ CallAgain

SpecReorder == InitReorder /\ [][NextReorder]_vars

\* ------------------------------------------------------------------------
\* Claims about get_symmetry_with_cell and get_primitive_spin_symmetry
\* ------------------------------------------------------------------------

\* get_symmetry_with_cell has returned
HaveNonmag == pc # "with_cell"

\* Phase B has computed T
HaveTmatStg == pc \in {"abort_assert", "phaseD", "phaseE", "assemble", "done"}

\* C1: whenever Phase B has computed T, |det(T)| equals the number of
\* centerings retained by Phase A (the asserted condition of line 201).
C1_DetEqualsRetained ==
    HaveTmatStg => Abs(Det3(tmat_stg)) = Len(stg.centerings)

\* C2: the translation parts of two distinct operations of
\* spin_translation_coset never differ by an integer vector of the new
\* primitive basis.
C2_TranslationsDistinctModLattice ==
    \A i, j \in 1..Len(spin_translation_coset) :
        i # j =>
            ~VDivisible(VSub(spin_translation_coset[i].translation.num,
                             spin_translation_coset[j].translation.num),
                        spin_translation_coset[i].translation.den)

\* The permutation an accepted nontrivial operation was tested against
ComposedPermutation(op) ==
    PermMul(stg.perms[op.csrc], nonmag.prim_permutations[op.src])

\* C6: for every stored operation, its spin rotation applied to the moments
\* is within the magnetic tolerance of the moments at the permuted sites
\* (the centering permutation in Phase D, the centering permutation composed
\* with the rotation's permutation in Phase E), at every site.
C6_StoredOperationsReproduceMoments ==
    /\ \A k \in 1..Len(spin_translation_coset) :
          LET op == spin_translation_coset[k]
          IN  \A i \in 1..Len(input.magmoms) :
                NormSq(VSub(MatVec(op.spin_rotation, input.magmoms[i]),
                            PyIndex(input.magmoms,
                                nonmag.prim_centering_permutations[op.src][i])))
                    < input.mag_symprecSq
    /\ \A k \in 1..Len(nontrivial_coset) :
          LET op == nontrivial_coset[k]
          IN  \A i \in 1..Len(input.magmoms) :
                NormSq(VSub(MatVec(op.spin_rotation, input.magmoms[i]),
                            PyIndex(input.magmoms, ComposedPermutation(op)[i])))
                    < input.mag_symprecSq

\* C6 witness: a finished run that stored a spin translation whose spin
\* rotation is not the identity, and at least one operation of Phase E
C6_Witness ==
    /\ pc = "done"
    /\ \E k \in 1..Len(spin_translation_coset) :
          spin_translation_coset[k].spin_rotation # Eye3
    /\ Len(nontrivial_coset) > 0

\* The input rotations are pairwise distinct
DistinctRotations(nm) ==
    \A p, q \in 1..Len(nm.prim_rotations) :
        p # q => nm.prim_rotations[p] # nm.prim_rotations[q]

\* C7: with pairwise distinct input rotations, the operations of
\* nontrivial_coset have pairwise distinct rotation parts, come from
\* pairwise distinct input rotations, and keep the order of their inputs.
C7_NontrivialCosetDistinctOrdered ==
    (HaveNonmag /\ DistinctRotations(nonmag)) =>
        \A i, j \in 1..Len(nontrivial_coset) :
            i < j => /\ nontrivial_coset[i].rotation # nontrivial_coset[j].rotation
                     /\ nontrivial_coset[i].src < nontrivial_coset[j].src

\* C7 witness: a finished run with two retained centerings in which a
\* rotation was accepted with the first of them and another rotation later
C7_Witness ==
    /\ pc = "done"
    /\ DistinctRotations(nonmag)
    /\ Len(stg.centerings) >= 2
    /\ Len(nontrivial_coset) >= 2
    /\ nontrivial_coset[1].csrc = 1

\* Position of site s (1-based) in quarters of the primitive basis
PrimPosition(s) ==
    LET nb == Len(input.basis)
        c == input.cents[((s - 1) \div nb) + 1]
    IN  VAdd(VScale(4, AsInteger(MatVec(input.M, c), Abs(Det3(input.M)))),
             input.basis[((s - 1) % nb) + 1])

\* The operation (rot, trans/pden) in primitive coordinates moves site i
\* onto site j, up to a translation of the input cell
MovesOnto(rot, trans, pden, i, j) ==
    LET d == VSub(VAdd(VScale(pden, MatVec(rot, PrimPosition(i + 1))),
                       VScale(4, trans)),
                  VScale(pden, PrimPosition(j + 1)))
    IN  VDivisible(MatVec(Inv(input.M).num, d), 4 * pden * Inv(input.M).den)

\* perm is the permutation of the sites induced by (rot, trans/pden)
InducedBy(perm, rot, trans, pden) ==
    /\ Len(perm) = Len(input.positions)
    /\ \A i \in 0..(Len(perm) - 1) :
          /\ perm[i + 1] \in 0..(Len(perm) - 1)
          /\ MovesOnto(rot, trans, pden, i, perm[i + 1])

\* C8: in the NonmagneticSymmetry that get_symmetry_with_cell returns (pc is
\* "phaseA" on its return; the record is never written again) the
\* rotations, translations and permutations have equal length and the
\* permutation at each index is the one induced on the sites by the
\* operation at that index; likewise for centerings and their permutations.
C8_PermutationsAligned ==
    pc = "phaseA" =>
        /\ Len(nonmag.prim_rotations) = Len(nonmag.prim_translations)
        /\ Len(nonmag.prim_rotations) = Len(nonmag.prim_permutations)
        /\ Len(nonmag.prim_centerings) = Len(nonmag.prim_centering_permutations)
        /\ \A p \in 1..Len(nonmag.prim_permutations) :
              InducedBy(nonmag.prim_permutations[p], nonmag.prim_rotations[p],
                        nonmag.prim_translations[p], nonmag.pden)
        /\ \A c \in 1..Len(nonmag.prim_centering_permutations) :
              InducedBy(nonmag.prim_centering_permutations[c], Eye3,
                        nonmag.prim_centerings[c], nonmag.pden)

\* C8 witness: a NonmagneticSymmetry of a cell with several centerings in
\* which the fourfold rotation moves sites
C8_Witness ==
    /\ pc = "phaseA"
    /\ Len(nonmag.prim_centerings) >= 2
    /\ \E k \in 1..Len(nonmag.prim_rotations) :
          /\ nonmag.prim_rotations[k] = C4z
          /\ nonmag.prim_permutations[k] # nonmag.prim_permutations[1]

\* C9: a run of get_primitive_spin_symmetry ends either with a SpinSpaceGroup
\* whose six fields are all set or on the assertion of Phase B with no coset
\* built; it never ends anywhere else.
C9_TwoOutcomes ==
    /\ pc \notin {"abort_concat", "abort_mul"}
    /\ pc = "abort_assert" => (spin_translation_coset = <<>> /\ nontrivial_coset = <<>>)
    /\ pc = "done" =>
          /\ DOMAIN result = {"prim_lattice", "spin_only_group",
                              "spin_translation_coset", "prim_centerings",
                              "nontrivial_coset", "transformation"}
          /\ result.spin_translation_coset = spin_translation_coset
          /\ result.nontrivial_coset = nontrivial_coset

\* The operation at position k of the argument list left a site unmatched
Unmatched(k) == -1 \in Range(matched[k].perm)

\* C3: an operation for which some source site found no unclaimed
\* same-species target within tolerance contributes no permutation: it was
\* not appended, and the returned list holds no permutation with an
\* unmatched entry.
C3_UnmatchedOperationDropped ==
    /\ \A k \in 1..Len(matched) : Unmatched(k) => ~matched[k].appended
    /\ pc = "perm_done" =>
          Len(outcome) = Cardinality({k \in 1..Len(matched) : ~Unmatched(k)})

\* The sites i of the argument structure, 0-based
PermSites == 0..(Len(args.positions) - 1)

\* Operations in the order of the argument list whose perm was appended
AppendedIndices == SortedSeq({<<k, 0, 0>> : k \in {m \in 1..Len(matched) : matched[m].appended}})

\* C4: every returned permutation is a bijection on {0..n-1}; each site goes
\* to a site of its species, and the operation of the permutation moves the
\* site to within symprec of its image, modulo the lattice.
C4_ReturnedPermutationsValid ==
    pc = "perm_done" =>
        \A m \in 1..Len(outcome) :
            LET perm == outcome[m]
                op == args.ops[AppendedIndices[m][1]]
            IN  /\ \A i \in PermSites : perm[i + 1] \in PermSites
                /\ \A i, j \in PermSites : i # j => perm[i + 1] # perm[j + 1]
                /\ \A i \in PermSites :
                      perm[i + 1] \in PermSites =>
                         /\ args.numbers[i + 1] = args.numbers[perm[i + 1] + 1]
                         /\ is_overlap(args.lattice,
                                       Displacement(args.positions, op.rot,
                                                    op.trans, i, perm[i + 1]),
                                       args.den, args.symprecSq)

\* The products of one or more elements of gens: S, grown by multiplying
\* with an element of gens on the right until nothing new appears
RECURSIVE GrownBy(_, _)
GrownBy(S, gens) ==
    LET T == S \cup {ElementProduct(a, b) : a \in S, b \in gens}
    IN  IF T = S THEN S ELSE GrownBy(T, gens)

GeneratedBy(gens) == GrownBy(gens, gens)

\* C5: the returned tuple holds exactly the products of the generators:
\* every generator, closed under the product, nothing else, nothing twice.
C5_ReturnsGeneratedGroup ==
    pc = "trav_done" =>
       /\ Range(generators) \subseteq Range(outcome)
       /\ \A a, b \in Range(outcome) : ElementProduct(a, b) \in Range(outcome)
       /\ Range(outcome) = GeneratedBy(Range(generators))
       /\ Cardinality(Range(outcome)) = Len(outcome)
       /\ generators = <<<<Eye3, Eye3>>>> => outcome = <<<<Eye3, Eye3>>>>
       /\ (Len(generators) = 1 /\ generators[1][1] = C4z) => Len(outcome) = 4

\* C5 witness: a single generator of order 4 returned its four powers
C5_Witness ==
    /\ pc = "trav_done"
    /\ generators = <<<<C4z, Inversion>>>>
    /\ Len(outcome) = 4
    /\ <<Eye3, Eye3>> \in Range(outcome)

\* No catalogue entry of the identified symbol matches the conjugated input
NoEntryMatches ==
    /\ pc \in {"canon_loop", "canon_done", "canon_none", "canon_error"}
    /\ \A e \in 1..Len(pg_dataset(pointgroup.symbol)) :
          ~EntrySuccess(pg_dataset(pointgroup.symbol)[e],
                        Conjugated(prim_rotations, pointgroup.P))

\* C10: when no catalogue entry matches, get_canonical_pointgroup ends on an
\* error, never on a normal return.
C10_MissIsReported ==
    NoEntryMatches => pc \notin {"canon_done", "canon_none"}

\* P^-1 . R . P is exactly the integer matrix S
ConjugateIs(R, P, S) ==
    MatMul(MatMul(Inv(P).num, R), P) = MatScale(Inv(P).den, S)

\* Every rotation of catalogue entry e (0-based) of the identified symbol is
\* the conjugate of some input rotation
EntryOccurs(e) ==
    \A i \in 1..Len(pg_dataset(pointgroup.symbol)[e + 1]) :
        \E j \in 1..Len(prim_rotations) :
            ConjugateIs(prim_rotations[j], pointgroup.P,
                        pg_dataset(pointgroup.symbol)[e + 1][i])

\* What C11 says of a returned (symbol, idx, mapping) apart from its last
\* clause: lowest matching index, bijective mapping, conjugates reproduced
CanonicalResultValid ==
    LET order == Len(prim_rotations)
        std == pg_dataset(outcome.symbol)[outcome.idx + 1]
    IN  /\ outcome.symbol = pointgroup.symbol
        /\ EntryOccurs(outcome.idx)
        /\ \A e \in 0..(outcome.idx - 1) : ~EntryOccurs(e)
        /\ Len(outcome.mapping) = order
        /\ {outcome.mapping[k] : k \in 1..order} = 0..(order - 1)
        /\ \A k \in 1..order :
              ConjugateIs(PyIndex(prim_rotations, outcome.mapping[k]),
                          pointgroup.P, std[k])

IdentityMapping(n) == [k \in 1..n |-> k - 1]

\* C11 as stated: a returned (symbol, idx, mapping) has the lowest matching
\* index, a bijective mapping and reproduces catalogue rotation k from input
\* mapping[k]; and an input equal to catalogue entry 0 in catalogue order
\* gets index 0 and the identity mapping.
C11_CanonicalMappingForCatalogueInput ==
    pc = "canon_done" =>
        /\ CanonicalResultValid
        /\ prim_rotations = pg_dataset(pointgroup.symbol)[1] =>
              /\ outcome.idx = 0
              /\ outcome.mapping = IdentityMapping(Len(prim_rotations))

\* C11 amended: the same, the last clause for an input whose conjugates by P
\* equal catalogue entry 0 in catalogue order.
C11_CanonicalMappingForConjugatedInput ==
    pc = "canon_done" =>
        /\ CanonicalResultValid
        /\ (/\ Len(prim_rotations) = Len(pg_dataset(pointgroup.symbol)[1])
            /\ \A k \in 1..Len(prim_rotations) :
                  ConjugateIs(prim_rotations[k], pointgroup.P,
                              pg_dataset(pointgroup.symbol)[1][k])) =>
              /\ outcome.idx = 0
              /\ outcome.mapping = IdentityMapping(Len(prim_rotations))

\* C11 witness: a group of order 4 given out of catalogue order and matched
\* with a mapping that is not the identity
C11_Witness ==
    /\ pc = "canon_done"
    /\ Len(prim_rotations) = 4
    /\ pointgroup.P # Eye3
    /\ outcome.mapping # IdentityMapping(4)

\* All site moments are identical and the tolerance is positive
Ferromagnetic ==
    /\ HaveNonmag
    /\ input.mag_symprecSq > 0
    /\ \A i \in 1..Len(input.magmoms) : input.magmoms[i] = input.magmoms[1]

\* C12: a run on a structure with identical moments does not abort, and its
\* result has one operation of nontrivial_coset per rotation of the
\* nonmagnetic symmetry, every stored spin rotation being the identity.
C12_FerromagneticFullCoset ==
    Ferromagnetic =>
        /\ pc \notin {"abort_assert", "abort_concat", "abort_mul"}
        /\ \A k \in 1..Len(spin_translation_coset) :
              spin_translation_coset[k].spin_rotation = Eye3
        /\ \A k \in 1..Len(nontrivial_coset) :
              nontrivial_coset[k].spin_rotation = Eye3
        /\ pc = "done" =>
              Len(result.nontrivial_coset) = Len(nonmag.prim_rotations)

\* The scenario of C13: two sites exchanged by the inversion, moments up and
\* down along z, a single centering, identity and inversion the only
\* rotations
TwoSiteAntiferromagnet ==
    /\ HaveNonmag
    /\ input.magmoms = <<<<0, 0, 1>>, <<0, 0, -1>>>>
    /\ input.mag_symprecSq > 0
    /\ nonmag.prim_rotations = <<Eye3, Inversion>>
    /\ nonmag.prim_permutations = <<<<0, 1>>, <<1, 0>>>>
    /\ Len(nonmag.prim_centerings) = 1

\* The run has not aborted
NotAborted == pc \notin {"abort_with_cell", "abort_concat", "abort_assert", "abort_mul"}

\* spin_translation_coset holds the identity translation and nothing else
OnlyIdentityTranslation ==
    /\ Len(result.spin_translation_coset) = 1
    /\ result.spin_translation_coset[1].rotation = Eye3
    /\ result.spin_translation_coset[1].translation.num = Zero3

\* W is a rotation by 180 degrees about an axis orthogonal to z
HalfTurnAcrossZ(W) ==
    /\ MatMul(W, Transpose(W)) = Eye3
    /\ Det3(W) = 1
    /\ MatMul(W, W) = Eye3
    /\ MatVec(W, <<0, 0, 1>>) = <<0, 0, -1>>

\* W is orthogonal and reverses the z axis
ReversesZ(W) ==
    /\ MatMul(W, Transpose(W)) = Eye3
    /\ MatVec(W, <<0, 0, 1>>) = <<0, 0, -1>>

\* C13 as stated: the run returns, spin_translation_coset holds only the
\* identity translation, and nontrivial_coset holds exactly one operation,
\* the inversion with a half turn about an axis orthogonal to the moments.
C13_AntiferromagnetOneOperation ==
    TwoSiteAntiferromagnet =>
        /\ NotAborted
        /\ pc = "done" =>
              /\ OnlyIdentityTranslation
              /\ Len(result.nontrivial_coset) = 1
              /\ result.nontrivial_coset[1].rotation = Inversion
              /\ HalfTurnAcrossZ(result.nontrivial_coset[1].spin_rotation)

\* C13 amended: nontrivial_coset holds exactly two operations, the identity
\* with the identity spin rotation and the inversion with an orthogonal
\* matrix that reverses the moment axis.
C13_AntiferromagnetTwoOperations ==
    TwoSiteAntiferromagnet =>
        /\ NotAborted
        /\ pc = "done" =>
              /\ OnlyIdentityTranslation
              /\ result.spin_translation_coset[1].spin_rotation = Eye3
              /\ Len(result.nontrivial_coset) = 2
              /\ result.nontrivial_coset[1].rotation = Eye3
              /\ result.nontrivial_coset[1].spin_rotation = Eye3
              /\ result.nontrivial_coset[2].rotation = Inversion
              /\ ReversesZ(result.nontrivial_coset[2].spin_rotation)

\* C13 witness: the scenario ran to its end and the inversion got the half
\* turn about x
C13_Witness ==
    /\ TwoSiteAntiferromagnet
    /\ pc = "done"
    /\ result.nontrivial_coset[2].spin_rotation = C2x

\* Phase A has run
HaveStg == pc \notin {"with_cell", "abort_with_cell", "phaseA"}

\* Every moment is zero and the tolerance is positive
NoMoments ==
    /\ HaveNonmag
    /\ input.mag_symprecSq > 0
    /\ \A i \in 1..Len(input.magmoms) : input.magmoms[i] = Zero3

\* C14: with all moments zero the run raises no error, Phase A retains every
\* centering, and every stored spin rotation is the identity.
C14_NoMomentsAllIdentity ==
    NoMoments =>
        /\ NotAborted
        /\ HaveStg => Len(stg.centerings) = Len(nonmag.prim_centerings)
        /\ \A k \in 1..Len(spin_translation_coset) :
              spin_translation_coset[k].spin_rotation = Eye3
        /\ \A k \in 1..Len(nontrivial_coset) :
              nontrivial_coset[k].spin_rotation = Eye3

\* v is an integer combination of the columns of T
InLattice(T, v) == VDivisible(MatVec(Inv(T).num, v), Inv(T).den)

\* C15: the reduced vector differs from the vector reduced by an element of
\* the lattice generated by the columns of T.
C15_ReductionCongruent ==
    pc = "reduce_done" =>
        InLattice(args.tmat_stg, VSub(args.centering, outcome))

\* C15 witness: a reduction that changed the vector without sending it to
\* zero, for a vector whose image under the inverse of T is not integer
C15_Witness ==
    /\ pc = "reduce_done"
    /\ outcome # args.centering
    /\ outcome # Zero3
    /\ ~InLattice(args.tmat_stg, args.centering)

\* The group generated by every generator list of the model, as pairs
\* <<generators, group>>
GeneratedTable ==
    {<<gens, GeneratedBy(Range(gens))>> :
        gens \in SeqsBetween(TravGeneratorPool, 1, MaxGens)}

\* Order of the group generated by gens
GroupOrder(gens) ==
    Cardinality((CHOOSE e \in GeneratedTable : e[1] = gens)[2])

\* C16: the traversal ends with an empty queue; founds, which grows by one
\* at each insertion, never holds more elements than the generated group;
\* and a pass of the loop that inserts nothing shortens que by one.
C16_TraversalTerminates ==
    /\ <>(pc = "trav_done" /\ que = <<>>)
    /\ [](Cardinality(founds) <= GroupOrder(generators))
    /\ [][pc' = "trav_loop" =>
            \/ Cardinality(founds') = Cardinality(founds) + 1
            \/ founds' = founds /\ Len(que') = Len(que) - 1]_<<pc, travVars>>

\* C16 witness: a traversal of a group of order 8 or more that ended with
\* the whole group found
C16_Witness ==
    /\ pc = "trav_done"
    /\ que = <<>>
    /\ Cardinality(founds) >= 8
    /\ Cardinality(founds) = GroupOrder(generators)

\* The permutation length of the run
MulLen == Len(args.f)

\* prod is lhs after rhs: prod(i) = lhs(rhs(i)) at every index i
ComposesAs(prod, lhs, rhs) ==
    /\ Len(prod) = MulLen
    /\ \A i \in 0..(MulLen - 1) : prod[i + 1] = lhs[rhs[i + 1] + 1]

\* C17: every call of __mul__ yields the array i -> lhs(rhs(i)), and leaves
\* the operands, like every other object, as they were.
C17_MulAppliesRightFirst ==
    [][\A call \in MulCalls :
          outcome'[call[1]] # outcome[call[1]] =>
             /\ ComposesAs(outcome'[call[1]], MulObject(call[2]),
                           MulObject(call[3]))
             /\ args' = args
             /\ \A name \in MulNames \ {call[1]} :
                   outcome'[name] = outcome[name]]_vars

\* C17 witness: f * g has been made from f and g that do not commute
C17_Witness ==
    /\ pc = "mul"
    /\ outcome["fg"] # <<>>
    /\ \E i \in 1..MulLen :
          args.f[args.g[i] + 1] # args.g[args.f[i] + 1]

\* C18: (f*g)*h and f*(g*h) are the same array, and e*f and f*e are f.
C18_AssociativeWithIdentity ==
    pc = "mul" =>
       /\ (outcome["fg_h"] # <<>> /\ outcome["f_gh"] # <<>>
             => outcome["fg_h"] = outcome["f_gh"])
       /\ (outcome["ef"] # <<>> => outcome["ef"] = args.f)
       /\ (outcome["fe"] # <<>> => outcome["fe"] = args.f)

\* C18 witness: all four products are made, of three different permutations
\* none of which is the identity
C18_Witness ==
    /\ pc = "mul"
    /\ \A name \in {"fg_h", "f_gh", "ef", "fe"} : outcome[name] # <<>>
    /\ Cardinality({args.f, args.g, args.h, args.e}) = 4
    /\ outcome["fg"] # outcome["gh"]

\* Indices of the centerings that Phase A retained
RetainedSources == {stg.src[k] : k \in 1..Len(stg.src)}

\* The operation was built from a centering that Phase A retained
FromRetained(op) == op.src \in RetainedSources

\* C19 as stated: every operation of spin_translation_coset is built from a
\* centering retained by Phase A.
C19_OnlyRetainedCenterings ==
    \A k \in 1..Len(spin_translation_coset) :
        FromRetained(spin_translation_coset[k])

\* C19: every operation of spin_translation_coset is built from a centering
\* of the nonmagnetic symmetry, retained or not, and carries that centering
\* in the basis of T; one built from a centering that Phase A rejected has a
\* spin rotation other than the identity that takes the moments to the
\* permuted moments within the tolerance.
C19_BuiltFromFittedCenterings ==
    \A k \in 1..Len(spin_translation_coset) :
        LET op == spin_translation_coset[k]
        IN  /\ op.src \in 1..Len(nonmag.prim_centerings)
            /\ op.translation.num =
                  MatVec(Inv(tmat_stg).num, nonmag.prim_centerings[op.src])
            /\ op.translation.den = Inv(tmat_stg).den * nonmag.pden
            /\ ~FromRetained(op) =>
                  /\ op.spin_rotation # Eye3
                  /\ \A i \in 1..Len(input.magmoms) :
                        NormSq(VSub(
                            MatVec(op.spin_rotation, input.magmoms[i]),
                            PyIndex(input.magmoms,
                                nonmag.prim_centering_permutations[op.src][i])))
                            < input.mag_symprecSq

\* C19 witness: a finished run whose spin_translation_coset holds an
\* operation built from a centering that Phase A rejected
C19_Witness ==
    /\ pc = "done"
    /\ \E k \in 1..Len(result.spin_translation_coset) :
          ~FromRetained(result.spin_translation_coset[k])

\* W is the identity or a matrix the spin-only group does not contain
IdentityOrNonMember(W) ==
    W = Eye3 \/ ~SpinOnlyContain(input.magmoms, input.mag_symprecSq, W)

\* C20: the spin rotation of every operation stored in spin_translation_coset
\* or nontrivial_coset is the identity or a non-member of the spin-only
\* group; the acceptance test was made with the stored matrix, so a stored
\* identity carries the moments onto the permuted moments by itself.
C20_StoredRotationsCanonical ==
    /\ \A k \in 1..Len(spin_translation_coset) :
          LET op == spin_translation_coset[k]
          IN  /\ IdentityOrNonMember(op.spin_rotation)
              /\ op.spin_rotation = Eye3 =>
                    WithinTolerance(input.magmoms,
                        Permuted(input.magmoms,
                                 nonmag.prim_centering_permutations[op.src]),
                        input.mag_symprecSq)
    /\ \A k \in 1..Len(nontrivial_coset) :
          LET op == nontrivial_coset[k]
          IN  /\ IdentityOrNonMember(op.spin_rotation)
              /\ op.spin_rotation = Eye3 =>
                    WithinTolerance(input.magmoms,
                        Permuted(input.magmoms, ComposedPermutation(op)),
                        input.mag_symprecSq)

\* C20 witness: a finished run with moments that are not all zero, for which
\* the fit may return a member of the spin-only group other than the
\* identity, and which stored an identity and a non-member
C20_Witness ==
    /\ pc = "done"
    /\ \E i \in 1..Len(input.magmoms) : input.magmoms[i] # Zero3
    /\ \E W \in SpinRotationPool \ {Eye3} :
          SpinOnlyContain(input.magmoms, input.mag_symprecSq, W)
    /\ \E k \in 1..Len(result.nontrivial_coset) :
          result.nontrivial_coset[k].spin_rotation = Eye3
    /\ \E k \in 1..Len(result.nontrivial_coset) :
          result.nontrivial_coset[k].spin_rotation # Eye3

\* T^-1 . R . T for the input rotation number r, as numerators over den
NewBasisForm(r) == RotPrim(tmat_stg, nonmag.prim_rotations[r])

\* Every entry of num/den is an integer
IntegerMatrix(rp) ==
    \A i, j \in 1..3 : rp.num[i][j] % rp.den = 0

\* C22: every operation of nontrivial_coset comes from an input rotation R
\* whose form T^-1 . R . T is an integer matrix, and its rotation part is
\* that matrix; a rotation whose form is not an integer matrix has no
\* operation.
C22_OnlyIntegerRotationsStored ==
    /\ \A k \in 1..Len(nontrivial_coset) :
          LET op == nontrivial_coset[k]
              rp == NewBasisForm(op.src)
          IN  /\ IntegerMatrix(rp)
              /\ \A i, j \in 1..3 : op.rotation[i][j] * rp.den = rp.num[i][j]
    /\ pc \in {"phaseE", "assemble", "done"} =>
          \A r \in 1..NumTriples(nonmag) :
              ~IntegerMatrix(NewBasisForm(r)) =>
                 \A k \in 1..Len(nontrivial_coset) : nontrivial_coset[k].src # r

\* C22 witness: a finished run in which a rotation was left out because its
\* form is not an integer matrix, and another rotation than the first was
\* stored
C22_Witness ==
    /\ pc = "done"
    /\ \E r \in 1..NumTriples(nonmag) : ~IntegerMatrix(NewBasisForm(r))
    /\ \E k \in 1..Len(nontrivial_coset) : nontrivial_coset[k].src > 1

\* The moments at the sites reached by the permutation of rotation r
\* followed by that of the retained centering c
ComposedMoments(r, c) ==
    [i \in 1..Len(input.magmoms) |->
        input.magmoms[stg.perms[c][nonmag.prim_permutations[r][i] + 1] + 1]]

\* W carries every moment to within the tolerance of target
CarriesOnto(W, target) ==
    \A i \in 1..Len(input.magmoms) :
        NormSq(VSub(MatVec(W, input.magmoms[i]), target[i]))
            < input.mag_symprecSq

\* The scan of rotation r may pass over the retained centering c: a matrix
\* the fit can return does not, once canonical, carry the moments onto the
\* composed moments
MayFail(r, c) ==
    \E W0 \in solve_procrustes(input.magmoms, ComposedMoments(r, c)) :
        ~CarriesOnto(IF SpinOnlyContain(input.magmoms, input.mag_symprecSq, W0)
                     THEN Eye3 ELSE W0,
                     ComposedMoments(r, c))

\* C21: an operation of nontrivial_coset records T^-1 (c + t) for the
\* retained centering c it was accepted with and the translation t of its
\* rotation; its spin rotation carries the moments onto those composed with
\* c, and every retained centering before c was passed over; a rotation has
\* at most one operation, and the step that appends one leaves the scan of
\* the centerings for the next rotation.
C21_FirstMatchingCentering ==
    /\ [](\A k \in 1..Len(nontrivial_coset) :
             LET op == nontrivial_coset[k]
             IN  /\ op.translation.num =
                       MatVec(Inv(tmat_stg).num,
                              VAdd(stg.centerings[op.csrc],
                                   nonmag.prim_translations[op.src]))
                 /\ op.translation.den = Inv(tmat_stg).den * nonmag.pden
                 /\ CarriesOnto(op.spin_rotation, ComposedMoments(op.src, op.csrc))
                 /\ \A c \in 1..(op.csrc - 1) : MayFail(op.src, c)
                 /\ \A j \in 1..Len(nontrivial_coset) :
                       j # k => nontrivial_coset[j].src # op.src)
    /\ [][Len(nontrivial_coset') > Len(nontrivial_coset) =>
             /\ nontrivial_coset'[Len(nontrivial_coset')].src = loop[1]
             /\ nontrivial_coset'[Len(nontrivial_coset')].csrc = loop[2]
             /\ loop' = <<loop[1] + 1, 1>>]_<<loop, nontrivial_coset>>

\* C21 witness: a finished run in which a rotation was accepted with the
\* second retained centering, a centering that is not zero
C21_Witness ==
    /\ pc = "done"
    /\ \E k \in 1..Len(nontrivial_coset) :
          /\ nontrivial_coset[k].csrc > 1
          /\ stg.centerings[nontrivial_coset[k].csrc] # Zero3

\* Whether a centering matches does not hang on which matrix the fit returns
MatchDeterminate ==
    pc \in {"phaseE", "assemble", "done"} =>
       \A r \in 1..NumTriples(nonmag), c \in 1..Len(stg.centerings) :
          MayFail(r, c) =>
             \A W0 \in solve_procrustes(input.magmoms, ComposedMoments(r, c)) :
                ~CarriesOnto(IF SpinOnlyContain(input.magmoms,
                                                input.mag_symprecSq, W0)
                             THEN Eye3 ELSE W0,
                             ComposedMoments(r, c))

\* C23: que is worked first-in first-out: a pass removes the element at the
\* left end and appends at the right end, and while some generator has not
\* yet been taken into founds, founds holds generators only.
C23_BreadthFirst ==
    /\ [][Len(que) > 0 /\ Len(que') >= Len(que) - 1
          /\ SubSeq(que', 1, Len(que) - 1) = Tail(que)]_que
    /\ [](LET gens == {generators[i] : i \in 1..Len(generators)}
          IN  founds \subseteq gens \/ gens \subseteq founds)

\* Squared length, times den^2, of the shortest periodic image of the step
\* from site j to the image of site i under operation op
ImageDistanceSq(op, i, j) ==
    LET frac == VSub(VAdd(MatVec(op.rot, args.positions[i + 1]), op.trans),
                     args.positions[j + 1])
        wrapped == [a \in 1..3 |-> frac[a] - args.den * VRint(frac, args.den)[a]]
    IN  NormSq(MatVec(Transpose(args.lattice), wrapped))

\* Targets claimed in perm by the source sites before i
ClaimedBefore(perm, i) == {perm[h + 1] : h \in 0..(i - 1)} \ {-1}

\* Targets open to source site i: not claimed by an earlier source site, of
\* the species of i, and strictly nearer than symprec to the image of i
Candidates(op, perm, i) ==
    {j \in 0..(Len(args.positions) - 1) :
        /\ j \notin ClaimedBefore(perm, i)
        /\ args.numbers[j + 1] = args.numbers[i + 1]
        /\ ImageDistanceSq(op, i, j) < args.symprecSq * args.den * args.den}

\* C24: in the perm left by the loops of an operation, every source site
\* holds the smallest of its candidates, or -1 when it has none, and no
\* target is held by two source sites.
C24_FirstFitMatching ==
    \A k \in 1..Len(matched) :
       LET perm == matched[k].perm
           op == args.ops[k]
           sites == 0..(Len(args.positions) - 1)
       IN  /\ Len(perm) = Len(args.positions)
           /\ \A i \in sites :
                 IF Candidates(op, perm, i) = {}
                 THEN perm[i + 1] = -1
                 ELSE /\ perm[i + 1] \in Candidates(op, perm, i)
                      /\ \A j \in Candidates(op, perm, i) : perm[i + 1] <= j
           /\ \A i, h \in sites :
                 i # h /\ perm[i + 1] # -1 => perm[i + 1] # perm[h + 1]

\* C24 witness: a finished call in which a source site passed over a lower
\* target of its species within symprec because an earlier source site held
\* it, and a source site was left without the target of its species whose
\* distance equals symprec
C24_Witness ==
    /\ pc = "perm_done"
    /\ \E k \in 1..Len(matched), i \in 0..(Len(args.positions) - 1) :
          /\ matched[k].perm[i + 1] # -1
          /\ \E j \in ClaimedBefore(matched[k].perm, i) :
                /\ j < matched[k].perm[i + 1]
                /\ args.numbers[j + 1] = args.numbers[i + 1]
                /\ ImageDistanceSq(args.ops[k], i, j)
                      < args.symprecSq * args.den * args.den
    /\ \E k \in 1..Len(matched), i, j \in 0..(Len(args.positions) - 1) :
          /\ matched[k].perm[i + 1] # j
          /\ j \notin ClaimedBefore(matched[k].perm, i)
          /\ args.numbers[j + 1] = args.numbers[i + 1]
          /\ ImageDistanceSq(args.ops[k], i, j)
                = args.symprecSq * args.den * args.den

\* C25: get_primitive_spin_symmetry never stops at the length assertion of
\* Permutation.__mul__: every permutation of the rotations and every
\* permutation of the retained centerings has one entry per site of the
\* input cell, so the two composed in Phase E have the same length.
C25_MulAssertionHolds ==
    /\ pc # "abort_mul"
    /\ pc \in {"phaseD", "phaseE", "assemble", "done"} =>
          /\ \A r \in 1..Len(nonmag.prim_permutations) :
                Len(nonmag.prim_permutations[r]) = Len(input.magmoms)
          /\ \A c \in 1..Len(stg.perms) :
                Len(stg.perms[c]) = Len(input.magmoms)

\* C25 witness: a finished run on a cell of several sites with two retained
\* centerings, in which Phase E composed a permutation for a rotation
\* other than the first and accepted it
C25_Witness ==
    /\ pc = "done"
    /\ Len(input.magmoms) >= 2
    /\ Len(stg.perms) >= 2
    /\ \E k \in 1..Len(nontrivial_coset) : nontrivial_coset[k].src > 1

\* The rotations of the input a list of operations was built from
AcceptedSources(coset) == {coset[k].src : k \in 1..Len(coset)}

\* The rotation parts stored in a list of operations
RotationParts(coset) == {coset[k].rotation : k \in 1..Len(coset)}

\* C26: a second call that differs from the first only in the order of the
\* centerings returns as the first did, and its nontrivial_coset is built
\* from the same rotations and stores the same rotation parts.
C26_AcceptedRotationsOrderFree ==
    Len(outcome) = 1 =>
       /\ NotAborted
       /\ pc = "done" =>
             /\ AcceptedSources(nontrivial_coset) = AcceptedSources(outcome[1])
             /\ RotationParts(nontrivial_coset) = RotationParts(outcome[1])

\* C26 witness: the second call has returned, and a rotation accepted in
\* both calls is recorded with different translations
C26_Witness ==
    /\ pc = "done"
    /\ Len(outcome) = 1
    /\ \E k \in 1..Len(nontrivial_coset), j \in 1..Len(outcome[1]) :
          /\ nontrivial_coset[k].src = outcome[1][j].src
          /\ nontrivial_coset[k].translation # outcome[1][j].translation

====
